---- MODULE Spec2Model ----
(***************************************************************************)
(* Model of dags/news_scraping_dag.py: the Airflow DAG                      *)
(* naver_news_scraping_with_db.  One DAG run is the task chain              *)
(*   get_all_article_urls -> filter_new_urls -> scrape_and_save_news.expand *)
(* Several runs may be active at once; they share the table naver_news.     *)
(***************************************************************************)
EXTENDS Integers, Sequences, FiniteSets, Bags, TLC

\* ---------------------------------------------------------------- bounds
NumRuns == 2        \* DAG runs created by the schedule
MaxFaults == 1      \* transient failures (network, store) injected in a behaviour
MaxEdits == 1       \* changes of the source site in a behaviour

\* ------------------------------------------------------ program constants
FirstSection == 100     \* range(100, 106)
EndSection == 106

Sections == FirstSection .. (EndSection - 1)
RunIds == 1 .. NumRuns
Urls == {"A", "B", "C"}

\* An article page of the source site is identified by a version: version 0
\* is a page without a usable title, the others are successive contents.
Versions == {0, 1, 2}
None == [none |-> TRUE]

NextVersion(v) == (v + 1) % Cardinality(Versions)

\* The listings a section page shows, one after the other.
NextListing(l) ==
    CASE l = <<>> -> <<"A", "B">>
      [] l = <<"A", "B">> -> <<"B", "C">>
      [] OTHER -> <<>>

\* The section pages that change while the model runs: the first and the last.
EditedSections == {FirstSection, EndSection - 1}

VARIABLES
    listing,        \* source site: section -> urls on the section page
    article,        \* source site: url -> version of the article page
    edits,          \* number of source changes so far
    faults,         \* number of transient failures so far
    naver_news,     \* the table: a bag of rows
    pc,             \* run -> state of the DAG run
    section_id,     \* run -> loop variable of get_all_article_urls
    all_urls,       \* run -> all_urls of get_all_article_urls
    unique_urls,    \* run -> return value of get_all_article_urls, until consumed
    new_urls,       \* run -> return value of filter_new_urls, until consumed
    units,          \* run -> bag of mapped task instances of scrape_and_save_news
    snapshot,       \* run -> existing_urls read by filter_new_urls (history)
    history         \* run -> what the run met and did so far (history)

vars == <<listing, article, edits, faults, naver_news, pc, section_id,
          all_urls, unique_urls, new_urls, units, snapshot, history>>

source == <<listing, article, edits>>

\* ------------------------------------------------------------- helpers
Range(s) == {s[i] : i \in 1 .. Len(s)}

\* All sequences without repetition whose elements are exactly S.
Orderings(S) ==
    {s \in [1 .. Cardinality(S) -> S] : \A i, j \in 1 .. Cardinality(S) : s[i] = s[j] => i = j}


\* ------------------------------------------------- source client (crawling)
Title(v) == CASE v = 0 -> "" [] v = 1 -> "t1" [] OTHER -> "t2"

\* The article a page of version v parses to.
Article(url, v) ==
    [url |-> url, title |-> Title(v), summary |-> v, content |-> v, time |-> v]

\* get_urls_from_section(section_id): the urls of the section page, or nothing
\* when the page could not be listed (the error stays inside the client).
get_urls_from_section(section, ok) == IF ok THEN listing[section] ELSE <<>>

\* get_news_content(url): the parsed article (its title is empty when the page
\* has no usable title), or None when the page could not be retrieved.
get_news_content(url, ok) == IF ok THEN Article(url, article[url]) ELSE None

\* ------------------------------------------------------- table naver_news
Rows(store) == BagToSet(store)

\* A key comparison that never matches.
KeysNone(store) == {}

\* The values of the column url, the key of the table.
Keys(store) == {row.url : row \in Rows(store)}

\* The number of rows of the table whose url is the given one.
Records(store, url) ==
    LET R == {row \in Rows(store) : row.url = url}
        Sum[S \in SUBSET R] ==
            IF S = {} THEN 0
            ELSE LET row == CHOOSE x \in S : TRUE IN CopiesIn(row, store) + Sum[S \ {row}]
    IN Sum[R]

\* A lookup that stops at the first url of the list.
existing_urls_first(store, urls) ==
    {key \in Keys(store) : urls # <<>> /\ key = Head(urls)}

\* SELECT url FROM naver_news WHERE url = ANY(%s), as the set existing_urls.
existing_urls(store, urls) == {key \in Keys(store) : key \in Range(urls)}

\* One SELECT per url of the list.
QueriesPerUrl(urls) == Len(urls)

\* hook.get_records(sql, parameters=(urls,)): the statements sent for the list,
\* one with the whole list as its parameter.
Queries(urls) == 1

\* new_urls = [url for url in urls if url not in existing_urls], without the if
NewUrlsAll(urls, existing) == urls

\* new_urls = [url for url in urls if url in existing_urls]
NewUrlsInverted(urls, existing) == SelectSeq(urls, LAMBDA url : url \in existing)

\* new_urls = [url for url in urls if url not in existing_urls]
NewUrls(urls, existing) == SelectSeq(urls, LAMBDA url : url \notin existing)

\* An insert that reports a row whatever the table holds.
RowCountOne(store, row) == 1

\* INSERT INTO naver_news ... ON CONFLICT (url) DO NOTHING: the rows affected.
RowCount(store, row) == IF row.url \in Keys(store) THEN 0 ELSE 1

\* ON CONFLICT (url) DO UPDATE: the row replaces the one the table holds.
InsertOrUpdate(store, row) ==
    LET others == {x \in BagToSet(store) : x.url # row.url}
    IN [x \in others \cup {row} |-> IF x = row THEN 1 ELSE CopiesIn(x, store)]

\* A plain INSERT: the row is added whatever the table holds.
InsertAlways(store, row) == store (+) SetToBag({row})

InsertOnConflictDoNothing(store, row) ==
    IF RowCount(store, row) = 0 THEN store ELSE store (+) SetToBag({row})

\* ---------------------------------------------------------------- tasks
\* if not news_data
UnusableNone(news_data) == news_data = None

\* if not news_data or not news_data.get("title")
Unusable(news_data) == news_data = None \/ news_data.title = ""

\* all_urls = urls
extend_replace(list, urls) == urls

\* all_urls.extend(urls)
extend(list, urls) == list \o urls

\* unique_urls = all_urls
UniqueListsKeepAll(urls) == {urls}

\* unique_urls = list(set(all_urls)): the distinct urls, in any order.
UniqueLists(urls) == Orderings(Range(urls))

Unit(url) == [url |-> url, pc |-> "fetch", news_data |-> None, log |-> "", status |-> ""]

Terminal(u) == u.pc \in {"success", "failed"}

\* An expansion that loses the first element of the list.
ExpandTail(urls) ==
    LET RECURSIVE E(_)
        E(l) == IF l = <<>> THEN EmptyBag ELSE E(Tail(l)) (+) SetToBag({Unit(Head(l))})
    IN IF urls = <<>> THEN EmptyBag ELSE E(Tail(urls))

\* The task instances .expand creates for a list: one per element.  The map
\* index is not kept: instances differ by their url only.
RECURSIVE Expand(_)
Expand(urls) ==
    IF urls = <<>> THEN EmptyBag
    ELSE Expand(Tail(urls)) (+) SetToBag({Unit(Head(urls))})

\* The bag with one copy of task instance u replaced by v.
Replace(bag, u, v) == (bag (-) SetToBag({u})) (+) SetToBag({v})

Ended(r) == pc[r] \in {"success", "failed"}

\* A network or store call either works or, while the budget lasts, fails.
Oks == IF faults < MaxFaults THEN {TRUE, FALSE} ELSE {TRUE}

Fault(ok) == IF ok THEN 0 ELSE 1

\* parameters with the title in the place of the url.
RowKeyedByTitle(news_data) ==
    [url |-> news_data.title, title |-> news_data.title, summary |-> news_data.summary,
     content |-> news_data.content, time |-> news_data.time]

\* parameters whose summary is not the one that was fetched.
RowPartial(news_data) ==
    [url |-> news_data.url, title |-> news_data.title, summary |-> 0,
     content |-> news_data.content, time |-> news_data.time]

\* parameters=(news_data["url"], news_data["title"], news_data["summary"],
\*             news_data["content"], news_data["time"])
Row(news_data) ==
    [url |-> news_data.url, title |-> news_data.title, summary |-> news_data.summary,
     content |-> news_data.content, time |-> news_data.time]

NoHistory ==
    [skipped |-> {},            \* the sections whose listing failed
     discovered |-> {},         \* the urls the section listings returned
     candidates |-> {},         \* the urls get_all_article_urls returned
     new |-> {},                \* the urls filter_new_urls returned
     queries |-> 0,             \* the existence queries sent to the store
     store_errors |-> 0]        \* the store calls that raised

\* ----------------------------------------------------------------- Init
InitListings ==
    { [s \in Sections |-> <<>>],
      [s \in Sections |-> IF s = FirstSection THEN <<"A", "B">>
                          ELSE IF s = FirstSection + 1 THEN <<"B", "C">> ELSE <<>>] }

InitArticles == { [url \in Urls |-> 1], [url \in Urls |-> IF url = "B" THEN 0 ELSE 1] }

InitStores == { EmptyBag, SetToBag({Article("A", 1)}) }

Init ==
    /\ listing \in InitListings
    /\ article \in InitArticles
    /\ edits = 0
    /\ faults = 0
    /\ naver_news \in InitStores
    /\ pc = [r \in RunIds |-> "idle"]
    /\ section_id = [r \in RunIds |-> FirstSection]
    /\ all_urls = [r \in RunIds |-> <<>>]
    /\ unique_urls = [r \in RunIds |-> <<>>]
    /\ new_urls = [r \in RunIds |-> <<>>]
    /\ units = [r \in RunIds |-> EmptyBag]
    /\ snapshot = [r \in RunIds |-> {}]
    /\ history = [r \in RunIds |-> NoHistory]

\* ------------------------------------------------------------ the source
\* The site rewrites an article page: it gets its next content (a page without
\* a title gets one, the last content is followed by a page without a title).
EditArticle ==
    /\ edits < MaxEdits
    /\ \E url \in Urls : article' = [article EXCEPT ![url] = NextVersion(@)]
    /\ edits' = edits + 1
    /\ UNCHANGED <<listing, faults, naver_news, pc, section_id, all_urls, unique_urls,
                   new_urls, units, snapshot, history>>

\* The site changes what a section page lists.
EditListing ==
    /\ edits < MaxEdits
    /\ \E s \in EditedSections : listing' = [listing EXCEPT ![s] = NextListing(@)]
    /\ edits' = edits + 1
    /\ UNCHANGED <<article, faults, naver_news, pc, section_id, all_urls, unique_urls,
                   new_urls, units, snapshot, history>>

\* --------------------------------------------------------------- the DAG
\* schedule="*/10 * * * *": the scheduler creates the next DAG run; runs are
\* created in schedule order and an earlier run may still be active.
StartRun(r) ==
    /\ pc[r] = "idle"
    /\ IF r = 1 THEN TRUE ELSE pc[r - 1] # "idle"
    /\ pc' = [pc EXCEPT ![r] = "get_all_article_urls"]
    /\ UNCHANGED <<source, faults, naver_news, section_id, all_urls, unique_urls,
                   new_urls, units, snapshot, history>>

\* get_all_article_urls, one iteration of "for section_id in range(100, 106)".
get_all_article_urls_loop(r) ==
    /\ pc[r] = "get_all_article_urls"
    /\ section_id[r] < EndSection
    /\ \E ok \in Oks :
          LET urls == get_urls_from_section(section_id[r], ok) IN
          /\ all_urls' = [all_urls EXCEPT ![r] = extend(@, urls)]
          /\ faults' = faults + Fault(ok)
          /\ history' = [history EXCEPT
                            ![r].skipped = IF ok THEN @ ELSE @ \cup {section_id[r]},
                            ![r].discovered = @ \cup Range(urls)]
    /\ section_id' = [section_id EXCEPT ![r] = @ + 1]
    /\ UNCHANGED <<source, naver_news, pc, unique_urls, new_urls, units, snapshot>>

\* A return indented into the loop: the task returns after any section.
get_all_article_urls_return_early(r) ==
    /\ pc[r] = "get_all_article_urls"
    /\ section_id[r] > FirstSection
    /\ \E unique \in UniqueLists(all_urls[r]) :
          /\ unique_urls' = [unique_urls EXCEPT ![r] = unique]
          /\ history' = [history EXCEPT ![r].candidates = Range(unique)]
    /\ all_urls' = [all_urls EXCEPT ![r] = <<>>]
    /\ pc' = [pc EXCEPT ![r] = "filter_new_urls"]
    /\ UNCHANGED <<source, faults, naver_news, section_id, new_urls, units, snapshot>>

\* get_all_article_urls, after the loop: unique_urls = list(set(all_urls)).
get_all_article_urls_return(r) ==
    /\ pc[r] = "get_all_article_urls"
    /\ section_id[r] = EndSection
    /\ \E unique \in UniqueLists(all_urls[r]) :
          /\ unique_urls' = [unique_urls EXCEPT ![r] = unique]
          /\ history' = [history EXCEPT ![r].candidates = Range(unique)]
    /\ all_urls' = [all_urls EXCEPT ![r] = <<>>]
    /\ pc' = [pc EXCEPT ![r] = "filter_new_urls"]
    /\ UNCHANGED <<source, faults, naver_news, section_id, new_urls, units, snapshot>>

\* filter_new_urls(urls) with urls the return value of get_all_article_urls.
filter_new_urls(r) ==
    /\ pc[r] = "filter_new_urls"
    /\ unique_urls' = [unique_urls EXCEPT ![r] = <<>>]
    /\ IF unique_urls[r] = <<>>
         THEN \* if not urls: return []
              /\ new_urls' = [new_urls EXCEPT ![r] = <<>>]
              /\ pc' = [pc EXCEPT ![r] = "expand"]
              /\ UNCHANGED <<faults, snapshot, history>>
         ELSE \E ok \in Oks :
              /\ faults' = faults + Fault(ok)
              /\ IF ok
                   THEN /\ snapshot' = [snapshot EXCEPT
                                          ![r] = existing_urls(naver_news, unique_urls[r])]
                        /\ new_urls' = [new_urls EXCEPT
                                          ![r] = NewUrls(unique_urls[r], snapshot'[r])]
                        /\ pc' = [pc EXCEPT ![r] = "expand"]
                        /\ history' = [history EXCEPT
                                          ![r].queries = @ + Queries(unique_urls[r]),
                                          ![r].new = Range(new_urls'[r])]
                   ELSE \* hook.get_records raises: the task fails and so does the run
                        /\ pc' = [pc EXCEPT ![r] = "failed"]
                        /\ history' = [history EXCEPT
                                          ![r].queries = @ + Queries(unique_urls[r]),
                                          ![r].store_errors = @ + 1]
                        /\ UNCHANGED <<new_urls, snapshot>>
    /\ UNCHANGED <<source, naver_news, section_id, all_urls, units>>

\* scrape_and_save_news.expand(url=new_urls_to_scrape): one mapped task
\* instance per element of the list.
expand(r) ==
    /\ pc[r] = "expand"
    /\ units' = [units EXCEPT ![r] = Expand(new_urls[r])]
    /\ new_urls' = [new_urls EXCEPT ![r] = <<>>]
    /\ pc' = [pc EXCEPT ![r] = "scrape_and_save_news"]
    /\ UNCHANGED <<source, faults, naver_news, section_id, all_urls, unique_urls,
                   snapshot, history>>

\* A fetch whose failure stops the whole run, as a loop over the urls in one
\* task would.
scrape_fetch_abort(r, u) ==
    /\ pc[r] = "scrape_and_save_news"
    /\ BagIn(u, units[r])
    /\ u.pc = "fetch"
    /\ \E ok \in Oks :
          LET news_data == get_news_content(u.url, ok) IN
          /\ faults' = faults + Fault(ok)
          /\ IF Unusable(news_data)
               THEN /\ units' = [units EXCEPT ![r] = Replace(@, u,
                                    [u EXCEPT !.news_data = news_data,
                                              !.log = "Failed to scrape or no title",
                                              !.pc = "success"])]
                    /\ pc' = [pc EXCEPT ![r] = "success"]
               ELSE /\ units' = [units EXCEPT ![r] = Replace(@, u,
                                    [u EXCEPT !.news_data = news_data, !.pc = "insert"])]
                    /\ UNCHANGED pc
    /\ UNCHANGED <<source, naver_news, section_id, all_urls, unique_urls, new_urls,
                   snapshot, history>>

\* A fetch that raises when the page cannot be retrieved.
scrape_fetch_raise(r, u) ==
    /\ pc[r] = "scrape_and_save_news"
    /\ BagIn(u, units[r])
    /\ u.pc = "fetch"
    /\ \E ok \in Oks :
          LET news_data == get_news_content(u.url, ok) IN
          /\ faults' = faults + Fault(ok)
          /\ IF news_data = None
               THEN units' = [units EXCEPT ![r] = Replace(@, u, [u EXCEPT !.pc = "failed"])]
               ELSE IF Unusable(news_data)
               THEN units' = [units EXCEPT ![r] = Replace(@, u,
                                 [u EXCEPT !.news_data = news_data,
                                           !.log = "Failed to scrape or no title",
                                           !.pc = "success"])]
               ELSE units' = [units EXCEPT ![r] = Replace(@, u,
                                 [u EXCEPT !.news_data = news_data, !.pc = "insert"])]
    /\ UNCHANGED <<source, naver_news, pc, section_id, all_urls, unique_urls, new_urls,
                   snapshot, history>>

\* scrape_and_save_news(url), up to the check of news_data.
scrape_fetch(r, u) ==
    /\ pc[r] = "scrape_and_save_news"
    /\ BagIn(u, units[r])
    /\ u.pc = "fetch"
    /\ \E ok \in Oks :
          LET news_data == get_news_content(u.url, ok) IN
          /\ faults' = faults + Fault(ok)
          /\ IF Unusable(news_data)
               THEN units' = [units EXCEPT ![r] = Replace(@, u,
                                 [u EXCEPT !.news_data = news_data,
                                           !.log = "Failed to scrape or no title",
                                           !.pc = "success"])]
               ELSE units' = [units EXCEPT ![r] = Replace(@, u,
                                 [u EXCEPT !.news_data = news_data, !.pc = "insert"])]
    /\ UNCHANGED <<source, naver_news, pc, section_id, all_urls, unique_urls, new_urls,
                   snapshot, history>>

\* An INSERT without ON CONFLICT: on a url the table holds the statement
\* raises a unique violation and the task instance fails.
scrape_insert_plain(r, u) ==
    /\ pc[r] = "scrape_and_save_news"
    /\ BagIn(u, units[r])
    /\ u.pc = "insert"
    /\ \E ok \in Oks :
          /\ faults' = faults + Fault(ok)
          /\ IF ok
               THEN LET row == Row(u.news_data) IN
                    IF RowCount(naver_news, row) = 1
                    THEN /\ naver_news' = naver_news (+) SetToBag({row})
                         /\ units' = [units EXCEPT ![r] = Replace(@, u,
                                        [u EXCEPT !.status = "INSERT 0 1",
                                                  !.log = "Successfully scraped and saved",
                                                  !.pc = "success"])]
                         /\ UNCHANGED history
                    ELSE /\ units' = [units EXCEPT ![r] = Replace(@, u,
                                        [u EXCEPT !.status = "ERROR", !.pc = "failed"])]
                         /\ UNCHANGED <<naver_news, history>>
               ELSE /\ units' = [units EXCEPT ![r] = Replace(@, u, [u EXCEPT !.pc = "failed"])]
                    /\ history' = [history EXCEPT ![r].store_errors = @ + 1]
                    /\ UNCHANGED naver_news
    /\ UNCHANGED <<source, pc, section_id, all_urls, unique_urls, new_urls, snapshot>>

\* scrape_and_save_news(url), from hook.run to the end.
scrape_insert(r, u) ==
    /\ pc[r] = "scrape_and_save_news"
    /\ BagIn(u, units[r])
    /\ u.pc = "insert"
    /\ \E ok \in Oks :
          /\ faults' = faults + Fault(ok)
          /\ IF ok
               THEN LET row == Row(u.news_data) IN
                    /\ naver_news' = InsertOnConflictDoNothing(naver_news, row)
                    /\ units' = [units EXCEPT ![r] = Replace(@, u,
                                   [u EXCEPT !.status = IF RowCount(naver_news, row) = 1
                                                        THEN "INSERT 0 1" ELSE "INSERT 0 0",
                                             !.log = "Successfully scraped and saved",
                                             !.pc = "success"])]
                    /\ UNCHANGED history
               ELSE \* hook.run raises: this task instance fails
                    /\ units' = [units EXCEPT ![r] = Replace(@, u, [u EXCEPT !.pc = "failed"])]
                    /\ history' = [history EXCEPT ![r].store_errors = @ + 1]
                    /\ UNCHANGED naver_news
    /\ UNCHANGED <<source, pc, section_id, all_urls, unique_urls, new_urls, snapshot>>

\* A run that fails when its mapped task had nothing to map.
FinishRunNeedsUnits(r) ==
    /\ pc[r] = "scrape_and_save_news"
    /\ \A u \in BagToSet(units[r]) : Terminal(u)
    /\ pc' = [pc EXCEPT ![r] = IF \/ units[r] = EmptyBag
                                    \/ \E u \in BagToSet(units[r]) : u.pc = "failed"
                                 THEN "failed" ELSE "success"]
    /\ UNCHANGED <<source, faults, naver_news, section_id, all_urls, unique_urls,
                   new_urls, units, snapshot, history>>

\* A run that ends in success whatever became of its task instances.
FinishRunSuccess(r) ==
    /\ pc[r] = "scrape_and_save_news"
    /\ \A u \in BagToSet(units[r]) : Terminal(u)
    /\ pc' = [pc EXCEPT ![r] = "success"]
    /\ UNCHANGED <<source, faults, naver_news, section_id, all_urls, unique_urls,
                   new_urls, units, snapshot, history>>

\* The DAG run ends when all its task instances have: failed if one of them
\* failed, success otherwise (also when the mapped task had nothing to map).
FinishRun(r) ==
    /\ pc[r] = "scrape_and_save_news"
    /\ \A u \in BagToSet(units[r]) : Terminal(u)
    /\ pc' = [pc EXCEPT ![r] = IF \E u \in BagToSet(units[r]) : u.pc = "failed"
                                 THEN "failed" ELSE "success"]
    /\ UNCHANGED <<source, faults, naver_news, section_id, all_urls, unique_urls,
                   new_urls, units, snapshot, history>>

\* A step of a DAG run that has started.
RunStep ==
    \/ \E r \in RunIds : get_all_article_urls_loop(r)
    \/ \E r \in RunIds : get_all_article_urls_return(r)
    \/ \E r \in RunIds : filter_new_urls(r)
    \/ \E r \in RunIds : expand(r)
    \/ \E r \in RunIds : \E u \in BagToSet(units[r]) : scrape_fetch(r, u)
    \/ \E r \in RunIds : \E u \in BagToSet(units[r]) : scrape_insert(r, u)
    \/ \E r \in RunIds : FinishRun(r)

Next ==
    \/ EditArticle
    \/ EditListing
    \/ \E r \in RunIds : StartRun(r)
    \/ RunStep

Spec == Init /\ [][Next]_vars

\* The pipeline run again and again over a source that does not change: a run
\* starts when the runs before it have ended.
StartRunAfter(r) ==
    /\ \A q \in RunIds : q < r => Ended(q)
    /\ StartRun(r)

NextTwice ==
    \/ \E r \in RunIds : StartRunAfter(r)
    \/ RunStep

SpecTwice == Init /\ [][NextTwice]_vars

\* The worker of a task instance is shut down before the instance has ended:
\* the instance is abandoned where it stands, before its fetch or between its
\* fetch and its insert.
Abandon(r, u) ==
    /\ pc[r] = "scrape_and_save_news"
    /\ BagIn(u, units[r])
    /\ u.pc \in {"fetch", "insert"}
    /\ faults < MaxFaults
    /\ faults' = faults + 1
    /\ units' = [units EXCEPT ![r] = Replace(@, u, [u EXCEPT !.pc = "abandoned"])]
    /\ UNCHANGED <<source, naver_news, pc, section_id, all_urls, unique_urls, new_urls,
                   snapshot, history>>

NextAbandon ==
    \/ Next
    \/ \E r \in RunIds : \E u \in BagToSet(units[r]) : Abandon(r, u)

\* The DAG with workers that may be shut down.
SpecAbandon == Init /\ [][NextAbandon]_vars

\* The scheduler and the workers run every task instance that is ready.
SpecTwiceFair == SpecTwice /\ WF_vars(RunStep)

\* ======================================================================
\* Properties
\* ======================================================================
AllUnits == UNION {BagToSet(units[q]) : q \in RunIds}

\* The task instances <<run, instance>> that have executed their INSERT for url.
Inserters(url) ==
    {x \in RunIds \X AllUnits :
        BagIn(x[2], units[x[1]]) /\ x[2].url = url /\ x[2].status # ""}

\* Those whose INSERT added the row.
Effective(url) == {x \in Inserters(url) : x[2].status = "INSERT 0 1"}

\* C1: in every reachable state, whatever the number of overlapping runs and
\* the interleaving of their scrape_and_save_news instances, the table
\* naver_news holds at most one row per url.
C1_OneRecordPerUrl == \A url \in Urls : Records(naver_news, url) <= 1

\* Two runs have both executed their INSERT for the same url.
C1_Witness ==
    \E url \in Urls : \E r1, r2 \in RunIds :
        r1 # r2 /\ \E x, y \in Inserters(url) : x[1] = r1 /\ y[1] = r2

\* What a task instance reports: its final state and its log line (the result
\* of hook.run is dropped).
Observed(u) == <<u.pc, u.log>>

\* C2 as claimed: of the instances that inserted the same absent url, the one
\* whose insert took effect and one whose insert did not observe different
\* outcomes (Inserted against AlreadyExists).
C2_Original ==
    \A url \in Urls : \A x, y \in Inserters(url) :
        (x[2].status = "INSERT 0 1" /\ y[2].status = "INSERT 0 0")
            => Observed(x[2]) # Observed(y[2])

\* C2 amended: when instances insert the same url that was absent from the
\* table, exactly one INSERT adds the row and the others add nothing, and
\* every one of the instances ends in success with the same log line.
C2_OneInsertTakesEffect ==
    \A url \in Urls :
        Inserters(url) # {} =>
            /\ Cardinality(Effective(url)) = 1
            /\ \A x \in Effective(url) : CopiesIn(x[2], units[x[1]]) = 1
            /\ Records(naver_news, url) = 1
            /\ \A x \in Inserters(url) :
                   /\ x[2].status \in {"INSERT 0 1", "INSERT 0 0"}
                   /\ Observed(x[2]) = <<"success", "Successfully scraped and saved">>

\* One instance inserted the row and an instance of another run found it there.
C2_Witness ==
    \E url \in Urls : \E x, y \in Inserters(url) :
        x[1] # y[1] /\ x[2].status = "INSERT 0 1" /\ y[2].status = "INSERT 0 0"

\* The list without the elements whose url is a key of the table.
Absent(list, store) ==
    [i \in 1 .. Len(list) |-> list[i] \notin {row.url : row \in BagToSet(store)}]

\* C3: filter_new_urls(C), evaluated against the table S, returns exactly the
\* elements of C whose url is not a key of S: no url absent from S is dropped
\* and no url present in S is kept.
C3_FilterExact ==
    [][\A r \in RunIds :
          (pc[r] = "filter_new_urls" /\ pc'[r] = "expand") =>
              LET C == unique_urls[r]
                  keep == Absent(C, naver_news)
              IN /\ \A i \in 1 .. Len(C) :
                        keep[i] <=> C[i] \in Range(new_urls'[r])
                 /\ Range(new_urls'[r]) \subseteq Range(C)
                 /\ Len(new_urls'[r]) = Cardinality({i \in 1 .. Len(C) : keep[i]})]_vars

\* filter_new_urls has returned a list from which it dropped a stored url and
\* in which it kept one that was not stored.
C3_Witness ==
    \E r \in RunIds :
        /\ pc[r] = "expand"
        /\ new_urls[r] # <<>>
        /\ snapshot[r] # {}
        /\ history[r].candidates = snapshot[r] \cup Range(new_urls[r])

\* Run r met no failure: every section was listed, every fetch returned a
\* page and every store call worked.
FaultFree(r) ==
    /\ pc[r] = "success"
    /\ history[r].skipped = {}
    /\ history[r].store_errors = 0
    /\ \A u \in BagToSet(units[r]) : u.news_data # None

Rerunning(r) == r > 1 /\ pc[r] \notin {"idle", "success", "failed"}

NothingOrNoTitle(news_data) == news_data = None \/ news_data.title = ""

\* C6: an instance whose fetch returned nothing, or an article with an empty
\* title, never attempts the insert: it ends without a store call, and no row
\* of the table has an empty title.
C6_NoInsertWithoutTitle ==
    /\ \A r \in RunIds : \A u \in BagToSet(units[r]) :
           (u.pc # "fetch" /\ NothingOrNoTitle(u.news_data)) =>
               /\ u.pc = "success"
               /\ u.status = ""
               /\ u.log = "Failed to scrape or no title"
    /\ \A row \in BagToSet(naver_news) : row.title # ""

\* An instance fetched an article without title and one fetched nothing.
C6_Witness ==
    \E r \in RunIds : \E u, v \in BagToSet(units[r]) :
        /\ u.pc = "success" /\ u.news_data # None /\ u.news_data.title = ""
        /\ v.pc = "success" /\ v.news_data = None

\* C7: within one run get_news_content is called at most once per url, also
\* for a url that several sections list.
C7_FetchOncePerUrl ==
    \A r \in RunIds : \A u, v \in BagToSet(units[r]) :
        (u.url = v.url /\ u.pc # "fetch" /\ v.pc # "fetch") =>
            u = v /\ CopiesIn(u, units[r]) = 1

\* A url that two sections list was fetched by a run that listed them all.
C7_Witness ==
    \E r \in RunIds : \E u \in BagToSet(units[r]) :
        /\ u.pc # "fetch"
        /\ edits = 0
        /\ history[r].skipped = {}
        /\ Cardinality({sec \in Sections : u.url \in Range(listing[sec])}) >= 2

FailedOrNoTitle(u) == u.pc = "success" /\ u.log = "Failed to scrape or no title"

\* C8: a fetch error or an article without title for one url never keeps the
\* instance of another new url of the run from running: the other instance
\* can take its fetch and its insert, and when the run has ended it has ended
\* too, failed only if its own store call failed.
C8_SiblingsNotBlocked ==
    \A r \in RunIds : \A x, y \in BagToSet(units[r]) :
        (x # y /\ FailedOrNoTitle(x)) =>
            /\ y.pc = "fetch" => ENABLED scrape_fetch(r, y)
            /\ y.pc = "insert" => ENABLED scrape_insert(r, y)
            /\ Ended(r) => Terminal(y)
            /\ y.pc = "failed" => history[r].store_errors > 0

\* In one run an instance met a fetch error, one an article without title and
\* a third one has inserted its row.
C8_Witness ==
    \E r \in RunIds : \E x, y, z \in BagToSet(units[r]) :
        /\ FailedOrNoTitle(x) /\ x.news_data = None
        /\ FailedOrNoTitle(y) /\ y.news_data # None
        /\ z.status = "INSERT 0 1"
        /\ Ended(r)

\* C9: once get_all_article_urls has returned, a run whose store calls all
\* work never ends failed, whatever fetches fail: an instance whose fetch
\* failed logs the failure and ends in success, and the run ends.
C9_RunCompletes ==
    /\ [](\A r \in RunIds :
             /\ history[r].store_errors = 0 =>
                    /\ pc[r] # "failed"
                    /\ \A u \in BagToSet(units[r]) : u.pc # "failed"
             /\ \A u \in BagToSet(units[r]) :
                    (u.pc # "fetch" /\ u.news_data = None) => FailedOrNoTitle(u))
    /\ \A r \in RunIds : (pc[r] = "filter_new_urls") ~> Ended(r)

\* A run has ended in success although two of its fetches failed to return
\* an article, one of them on an error.
C9_Witness ==
    \E r \in RunIds : \E x, y \in BagToSet(units[r]) :
        /\ pc[r] = "success"
        /\ x # y
        /\ FailedOrNoTitle(x) /\ x.news_data = None
        /\ FailedOrNoTitle(y)

\* C10 as claimed: when a run ends, every url of its new list has exactly one
\* instance, which recorded one of the outcomes (a saved or a failed-or-no-
\* title line).
C10_Original ==
    \A r \in RunIds : Ended(r) =>
        \A url \in history[r].new :
            /\ Cardinality({u \in BagToSet(units[r]) : u.url = url}) = 1
            /\ \A u \in BagToSet(units[r]) : u.url = url =>
                   /\ CopiesIn(u, units[r]) = 1
                   /\ u.log \in {"Successfully scraped and saved",
                                  "Failed to scrape or no title"}

\* C10 amended: when a run ends, every url of its new list has exactly one
\* instance and no other url has one; the instance either ended in success
\* with the saved line (its INSERT was executed: Inserted or AlreadyExists)
\* or with the failed-or-no-title line (NotFound or a fetch error), or it
\* failed without a line because its INSERT could not reach the store.
C10_OneOutcomePerNewUrl ==
    \A r \in RunIds : Ended(r) =>
        /\ \A u \in BagToSet(units[r]) : u.url \in history[r].new
        /\ \A url \in history[r].new :
            /\ Cardinality({u \in BagToSet(units[r]) : u.url = url}) = 1
            /\ \A u \in BagToSet(units[r]) : u.url = url =>
                   /\ CopiesIn(u, units[r]) = 1
                   /\ \/ /\ Observed(u) = <<"success", "Successfully scraped and saved">>
                         /\ u.status \in {"INSERT 0 1", "INSERT 0 0"}
                         /\ ~NothingOrNoTitle(u.news_data)
                      \/ /\ Observed(u) = <<"success", "Failed to scrape or no title">>
                         /\ u.status = ""
                         /\ NothingOrNoTitle(u.news_data)
                      \/ /\ Observed(u) = <<"failed", "">>
                         /\ u.status = ""
                         /\ history[r].store_errors > 0

\* A run has ended with two new urls, one saved and one not.
C10_Witness ==
    \E r \in RunIds : \E x, y \in BagToSet(units[r]) :
        /\ Ended(r)
        /\ x.log = "Successfully scraped and saved"
        /\ y.log = "Failed to scrape or no title"

\* C11: a store call that raises, in the existence check or in an insert, is
\* fatal for the run: the task instance that made the call fails without an
\* outcome line, and the run never ends in success.
C11_StoreErrorFatal ==
    \A r \in RunIds :
        /\ history[r].store_errors > 0 =>
               /\ pc[r] # "success"
               /\ Ended(r) => pc[r] = "failed"
               /\ \/ \E u \in BagToSet(units[r]) : u.pc = "failed"
                  \/ pc[r] = "failed" /\ units[r] = EmptyBag /\ history[r].new = {}
        /\ \A u \in BagToSet(units[r]) : u.pc = "failed" => u.log = "" /\ u.status = ""

\* A run has ended failed after an insert of one of its instances raised,
\* while another of its instances had saved its article.
C11_Witness ==
    \E r \in RunIds : \E u, v \in BagToSet(units[r]) :
        /\ pc[r] = "failed"
        /\ history[r].store_errors > 0
        /\ u.pc = "failed"
        /\ v.status = "INSERT 0 1"

ABC == {"A", "B", "C"}

\* The run r is in the scenario: its candidates are A, B and C and the table
\* held A and nothing else when its existence check ran.
Scenario(r) ==
    /\ history[r].candidates = ABC
    /\ snapshot[r] = {"A"}
    /\ history[r].queries = 1
    /\ history[r].store_errors = 0

\* C12: with the table holding A, one section listing A, B and another B, C,
\* the candidates are A, B, C (each once), the new urls are B and C, A is
\* never fetched, and when both fetches returned a title the table ends with
\* exactly one row for each of A, B, C.
C12_Scenario ==
    [][\A r \in RunIds :
          /\ (pc[r] = "get_all_article_urls" /\ pc'[r] = "filter_new_urls"
                 /\ all_urls[r] = <<"A", "B", "B", "C">>) =>
                 /\ Range(unique_urls'[r]) = ABC
                 /\ Len(unique_urls'[r]) = 3
          /\ (pc[r] = "filter_new_urls" /\ pc'[r] = "expand"
                 /\ Range(unique_urls[r]) = ABC
                 /\ {row.url : row \in BagToSet(naver_news)} = {"A"}) =>
                 /\ Range(new_urls'[r]) = {"B", "C"}
                 /\ Len(new_urls'[r]) = 2
          /\ Scenario(r)' =>
                 /\ history'[r].new = {"B", "C"}
                 /\ \A u \in BagToSet(units'[r]) : u.url # "A"
                 /\ (/\ pc'[r] = "success"
                     /\ \A u \in BagToSet(units'[r]) : ~NothingOrNoTitle(u.news_data)) =>
                        /\ {row.url : row \in BagToSet(naver_news')} = ABC
                        /\ \A url \in ABC : Records(naver_news', url) = 1]_vars

\* A run in the scenario has ended after fetching B and C with a title.
C12_Witness ==
    \E r \in RunIds :
        /\ Scenario(r)
        /\ pc[r] = "success"
        /\ edits = 0
        /\ listing[FirstSection] = <<"A", "B">>
        /\ listing[FirstSection + 1] = <<"B", "C">>
        /\ history[r].skipped = {}
        /\ \A u \in BagToSet(units[r]) : ~NothingOrNoTitle(u.news_data)
        /\ \A url \in ABC : Records(naver_news, url) = 1

\* The instances <<run, instance>> of url that have taken their insert step
\* in a run whose existence check marked url as new.
Racers(url) ==
    {x \in RunIds \X AllUnits :
        /\ BagIn(x[2], units[x[1]])
        /\ x[2].url = url
        /\ url \in history[x[1]].new
        /\ Terminal(x[2])
        /\ ~NothingOrNoTitle(x[2].news_data)}

\* C13: when two runs both marked a url as new and both came to insert it,
\* every one of the instances whose store call worked ends in success, the
\* loser included, the run of the loser fails only on a store error, and the
\* table holds one row for the url.
C13_LoserEndsNormally ==
    \A url \in Urls : \A x, y \in Racers(url) :
        (x[1] # y[1] /\ history[x[1]].store_errors = 0) =>
            /\ x[2].pc = "success"
            /\ x[2].status \in {"INSERT 0 1", "INSERT 0 0"}
            /\ Ended(x[1]) => pc[x[1]] = "success"
            /\ (x[2].status = "INSERT 0 0" \/ y[2].pc = "success") =>
                   Records(naver_news, url) = 1

\* Two runs marked the same url as new, one inserted it, the other lost the
\* race, and the run of the loser has ended.
C13_Witness ==
    \E url \in Urls : \E x, y \in Racers(url) :
        /\ x[1] # y[1]
        /\ x[2].status = "INSERT 0 0"
        /\ y[2].status = "INSERT 0 1"
        /\ pc[x[1]] = "success"

\* C14: filter_new_urls starts only when the loop of get_all_article_urls has
\* visited every section, and the list it gets holds, each once, exactly the
\* urls that the section listings of the run returned.
C14_DedupAfterDiscovery ==
    [][\A r \in RunIds :
          /\ (pc'[r] = "filter_new_urls" /\ pc[r] # "filter_new_urls") =>
                 /\ pc[r] = "get_all_article_urls"
                 /\ section_id[r] = EndSection
                 /\ Range(unique_urls'[r]) = history[r].discovered
                 /\ Len(unique_urls'[r]) = Cardinality(history[r].discovered)
          /\ (pc[r] = "filter_new_urls" /\ pc'[r] # "filter_new_urls") =>
                 /\ section_id[r] = EndSection
                 /\ history[r].discovered = history'[r].discovered
                 /\ Range(unique_urls[r]) = history[r].discovered
                 /\ Len(unique_urls[r]) = Cardinality(history[r].discovered)
                 /\ Range(new_urls'[r]) \subseteq history[r].discovered
          /\ pc[r] # "get_all_article_urls" =>
                 history'[r].discovered = history[r].discovered]_vars

\* filter_new_urls has run on three urls that two sections listed, one of
\* them twice.
C14_Witness ==
    \E r \in RunIds :
        /\ pc[r] = "expand"
        /\ Cardinality(history[r].discovered) = 3
        /\ history[r].candidates = history[r].discovered
        /\ history[r].skipped = {}

AfterFilter(r) == pc[r] \in {"expand", "scrape_and_save_news", "success", "failed"}

\* C15: a run whose candidate list or whose list of new urls is empty makes
\* no fetch and no insert (it has no task instance; with no candidate it sends
\* no query either), its end is enabled as soon as the list is expanded, and
\* it ends in success.
C15_EmptyRunSucceeds ==
    \A r \in RunIds :
        (AfterFilter(r) /\ history[r].new = {} /\ history[r].store_errors = 0) =>
            /\ units[r] = EmptyBag
            /\ pc[r] # "failed"
            /\ pc[r] = "scrape_and_save_news" => ENABLED FinishRun(r)
            /\ history[r].candidates = {} => history[r].queries = 0 /\ snapshot[r] = {}

\* A run whose three candidates were all stored has ended in success.
C15_Witness ==
    \E r \in RunIds :
        /\ pc[r] = "success"
        /\ Cardinality(history[r].candidates) = 3
        /\ history[r].queries = 1
        /\ history[r].new = {}

\* C17: filter_new_urls sends at most one existence query per run, whatever
\* the number of candidates, and none when there is no candidate.
C17_OneQueryPerRun ==
    \A r \in RunIds :
        /\ history[r].queries <= 1
        /\ (AfterFilter(r) /\ history[r].candidates # {}) => history[r].queries = 1
        /\ ~AfterFilter(r) => history[r].queries = 0

\* The existence check of a run with three candidates has returned.
C17_Witness ==
    \E r \in RunIds :
        /\ pc[r] = "expand"
        /\ Cardinality(history[r].candidates) = 3
        /\ history[r].queries = 1

\* C20: every task instance of a run, hence every fetch and insert, is for a
\* url of the run's list of new urls, which the table did not hold when the
\* existence check ran, and exists only after that check has returned.
C20_OnlyNewUrls ==
    \A r \in RunIds :
        /\ history[r].new \cap snapshot[r] = {}
        /\ \A u \in BagToSet(units[r]) :
               /\ u.url \in history[r].new
               /\ u.url \notin snapshot[r]
               /\ u.news_data # None => u.news_data.url \in history[r].new
               /\ history[r].queries = 1
               /\ pc[r] \in {"scrape_and_save_news", "success", "failed"}
        /\ ~AfterFilter(r) => units[r] = EmptyBag /\ history[r].new = {}

\* A run whose existence check found a stored url has inserted a new one.
C20_Witness ==
    \E r \in RunIds : \E u \in BagToSet(units[r]) :
        /\ snapshot[r] # {}
        /\ u.status = "INSERT 0 1"

\* The row holds all the fields of one article with a title, as fetched.
WholeArticle(row) == \E v \in Versions \ {0} : row = Article(row.url, v)

\* The task instance u of run r is abandoned in this step.
Abandoned(r, u) ==
    /\ BagIn(u, units[r])
    /\ u.pc \in {"fetch", "insert"}
    /\ BagIn([u EXCEPT !.pc = "abandoned"], units'[r])
    /\ CopiesIn(u, units'[r]) < CopiesIn(u, units[r])

\* C16: an article is never stored in part: every row of the table holds all
\* the fields of one fetched article, a step changes the table only by adding
\* one such row, and an instance abandoned before its fetch or between its
\* fetch and its insert leaves the table as it is and has executed no INSERT.
C16_NeverPartial ==
    [][/\ \A row \in BagToSet(naver_news') : WholeArticle(row)
       /\ naver_news' # naver_news =>
              \E row \in BagToSet(naver_news') :
                  /\ WholeArticle(row)
                  /\ naver_news' = naver_news (+) SetToBag({row})
       /\ \A r \in RunIds : \A u \in BagToSet(units[r]) :
              Abandoned(r, u) => naver_news' = naver_news
       /\ \A r \in RunIds : \A u \in BagToSet(units'[r]) :
              u.pc = "abandoned" => u.status = "" /\ u.log = ""]_vars

\* An instance was abandoned between its fetch and its insert: the table does
\* not hold its article, and it holds the one a sibling inserted.
C16_Witness ==
    \E r \in RunIds : \E u, v \in BagToSet(units[r]) :
        /\ u.pc = "abandoned"
        /\ u.news_data # None
        /\ Records(naver_news, u.url) = 0
        /\ v.status = "INSERT 0 1"
        /\ Records(naver_news, v.url) = 1

\* The task instance u of run r takes its insert step.
Inserts(r, u) ==
    /\ BagIn(u, units[r])
    /\ u.pc = "insert"
    /\ CopiesIn(u, units'[r]) < CopiesIn(u, units[r])
    /\ \E v \in BagToSet(units'[r]) : v.url = u.url /\ v.status # ""

C19_FirstWriterWins ==
    [][/\ \A row \in BagToSet(naver_news) : CopiesIn(row, naver_news') >= CopiesIn(row, naver_news)
       /\ \A r \in RunIds : \A u \in BagToSet(units[r]) :
              (Inserts(r, u) /\ Records(naver_news, u.url) > 0) => naver_news' = naver_news]_vars

\* An instance that fetched a later content of an article found the row of
\* the earlier content in the table, and the row is still the earlier one.
C19_Witness ==
    \E r \in RunIds : \E u \in BagToSet(units[r]) :
        /\ u.status = "INSERT 0 0"
        /\ \E row \in BagToSet(naver_news) : row.url = u.url /\ row # Row(u.news_data)

====
